---- MODULE Spec2Model ----
(***************************************************************************)
(* Model of devito's static cost estimators (devito/symbolics/inspection.py)*)
(* and of the operator accessors of the acoustic example                   *)
(* (examples/acoustic/Acoustic_codegen.py).                                *)
(*                                                                         *)
(* Every Python value that can reach the estimators is one record          *)
(*    [kind, name, val, args]                                              *)
(* kind is the value's class: the SymPy node classes "Symbol", "Integer",  *)
(* "Dimension" (val = 1 for the time dimension), "Indexed" (the array in  *)
(* name, the indices in args), "Op" (the operator in name), "Function" (the*)
(* function in name), "Equality" (args = <<lhs, rhs>>), the containers     *)
(* "list", "dict" (args = its values), "iterator" (args = the items it has *)
(* still to yield), and the unrecognized shapes "object" (no attribute the *)
(* estimators probe), "frame" (iterable, its `values` attribute is data,   *)
(* not a method) and "type" (a class such as dict, whose unbound `values`  *)
(* cannot be called without an instance).                                  *)
(***************************************************************************)
EXTENDS Integers, Sequences, FiniteSets, TLC

VARIABLES pc, call, handle, estimate_functions, mode, result, warned,
          reads, writes, computed,
          cache, nbuilt, firstop, lastop, nextid, lastcall, ncalls

estvars == <<pc, call, handle, estimate_functions, mode, result, warned,
             reads, writes, computed>>
cgvars == <<cache, nbuilt, firstop, lastop, nextid, lastcall, ncalls>>
vars == <<estvars, cgvars>>

(***************************************************************************)
(* Bounds of the model.                                                    *)
(***************************************************************************)
MaxArity == 2
MaxLen == 2
MaxCalls == 4

(***************************************************************************)
(* Python values.                                                          *)
(***************************************************************************)
Node(k, n, v, a) == [kind |-> k, name |-> n, val |-> v, args |-> a]
Sym(n) == Node("Symbol", n, 0, <<>>)
Integer(v) == Node("Integer", "", v, <<>>)
Dimension(n, is_time) == Node("Dimension", n, IF is_time THEN 1 ELSE 0, <<>>)
Indexed(b, idx) == Node("Indexed", b, 0, idx)
Op(k, a) == Node("Op", k, 0, a)
Func(f, a) == Node("Function", f, 0, a)
Eq(l, r) == Node("Equality", "", 0, <<l, r>>)
PyList(s) == Node("list", "", 0, s)
PyDict(s) == Node("dict", "", 0, s)
PyIter(s) == Node("iterator", "", 0, s)
PyObject == Node("object", "", 0, <<>>)
PyFrame == Node("frame", "", 0, <<>>)
PyType == Node("type", "dict", 0, <<>>)

TreeKinds == {"Symbol", "Integer", "Dimension", "Indexed", "Op", "Function",
              "Equality"}
is_Equality(e) == e.kind = "Equality"
is_Function(e) == e.kind = "Function"
is_Integer(e) == e.kind = "Integer"
lhs(e) == e.args[1]
rhs(e) == e.args[2]

SeqUpTo(S, n) == UNION {[1..k -> S] : k \in 0..n}

RECURSIVE flatten(_)
flatten(ss) == IF ss = <<>> THEN <<>> ELSE Head(ss) \o flatten(Tail(ss))

(***************************************************************************)
(* retrieve_ops: every Operation and Function-Call node of a tree, each    *)
(* occurrence once, sub-expressions first; terminals and indexed accesses  *)
(* are not operations but the operations inside their indices are found.   *)
(***************************************************************************)
q_op(e) == e.kind \in {"Op", "Function"}

RECURSIVE retrieve_ops(_)
retrieve_ops(e) ==
  LET sub == flatten([i \in 1..Len(e.args) |-> retrieve_ops(e.args[i])])
  IN IF q_op(e) THEN sub \o <<e>> ELSE sub

(***************************************************************************)
(* estimate_cost                                                           *)
(***************************************************************************)
external_functions == [f \in {"sin", "cos"} |-> 50]

iterable(h) == h.kind \in {"list", "dict", "iterator", "frame"}

\* lines 29-33: iter(handle) raises TypeError for a plain SymPy object
wrap(h) == IF iterable(h) THEN h ELSE PyList(<<h>>)

\* o.values(): "ok" (a dict), AttributeError (no such attribute) or
\* TypeError (the attribute is there but cannot be called like this)
values_exc(o) ==
  CASE o.kind = "dict" -> "ok"
    [] o.kind \in {"frame", "type"} -> "TypeError"
    [] OTHER -> "AttributeError"

\* index of the first item of s whose .values() raises, 0 if none does
first_raising(s) ==
  IF \E i \in 1..Len(s) : values_exc(s[i]) # "ok"
  THEN CHOOSE i \in 1..Len(s) :
         /\ values_exc(s[i]) # "ok"
         /\ \A j \in 1..(i - 1) : values_exc(s[j]) = "ok"
  ELSE 0

\* what is left of handle h after a loop over it stopped at its item k
\* (k = 0: the loop ran to the end): a one-shot iterator has lost the
\* items it yielded, anything else can be iterated again from the start
after_loop(h, k) ==
  IF h.kind = "iterator"
  THEN PyIter(IF k = 0 THEN <<>> ELSE SubSeq(h.args, k + 1, Len(h.args)))
  ELSE h

\* faulty variant of list_of_dicts: only the first mapping's values are taken
list_of_dicts_first_only(h) ==
  LET k == first_raising(h.args)
  IN IF k = 0
     THEN [exc |-> "none",
           handle |-> PyList(IF h.args = <<>> THEN <<>> ELSE h.args[1].args)]
     ELSE IF values_exc(h.args[k]) = "AttributeError"
     THEN [exc |-> "none", handle |-> after_loop(h, k)]
     ELSE [exc |-> values_exc(h.args[k]), handle |-> after_loop(h, k)]

\* lines 38-42: handle = flatten([i.values() for i in handle]), where
\* AttributeError leaves handle as the comprehension left it
list_of_dicts(h) ==
  LET k == first_raising(h.args)
  IN IF k = 0
     THEN [exc |-> "none",
           handle |-> PyList(flatten([i \in 1..Len(h.args) |-> h.args[i].args]))]
     ELSE IF values_exc(h.args[k]) = "AttributeError"
     THEN [exc |-> "none", handle |-> after_loop(h, k)]
     ELSE [exc |-> values_exc(h.args[k]), handle |-> after_loop(h, k)]

\* lines 29-42: the normalisation of the handle, outside the try of line 43
normalize(h0) ==
  LET h == wrap(h0)
  IN CASE values_exc(h) = "ok" -> [exc |-> "none", handle |-> PyList(h.args)]
       [] values_exc(h) = "AttributeError" -> list_of_dicts(h)
       [] OTHER -> [exc |-> values_exc(h), handle |-> h]

\* line 48
take_rhs(i) == IF is_Equality(i) THEN rhs(i) ELSE i

\* faulty variant of op_flops: integer-literal operands are not subtracted
op_flops_counting_integers(op, ef) ==
  IF is_Function(op)
  THEN IF ef
       THEN IF op.name \in DOMAIN external_functions
            THEN external_functions[op.name] ELSE 1
       ELSE 1
  ELSE Len(op.args) - 1

\* lines 52-58: what one retrieved operation adds to flops
op_flops(op, ef) ==
  IF is_Function(op)
  THEN IF ef
       THEN IF op.name \in DOMAIN external_functions
            THEN external_functions[op.name] ELSE 1
       ELSE 1
  ELSE Len(op.args)
       - (1 + Cardinality({i \in 1..Len(op.args) : is_Integer(op.args[i])}))

\* lines 50-58: the loop over the retrieved operations
RECURSIVE count_flops(_, _, _)
count_flops(operations, ef, flops) ==
  IF operations = <<>> THEN flops
  ELSE count_flops(Tail(operations), ef, flops + op_flops(Head(operations), ef))

IntResult(n) == [kind |-> "int", val |-> n, exc |-> "none"]
NoneResult == [kind |-> "None", val |-> 0, exc |-> "none"]
Raised(e) == [kind |-> "raise", val |-> 0, exc |-> e]

\* lines 43-61: everything the bare except covers. An item that is no SymPy
\* object has no is_Equality attribute: the AttributeError is swallowed.
counting(h, ef) ==
  IF \E i \in 1..Len(h.args) : h.args[i].kind \notin TreeKinds
  THEN [result |-> NoneResult, warned |-> TRUE]
  ELSE LET trees == [i \in 1..Len(h.args) |-> take_rhs(h.args[i])]
           operations == flatten([i \in 1..Len(trees) |-> retrieve_ops(trees[i])])
       IN [result |-> IntResult(count_flops(operations, ef, 0)), warned |-> FALSE]

estimate_cost(h, ef) ==
  LET n == normalize(h)
  IN IF n.exc # "none"
     THEN [result |-> Raised(n.exc), warned |-> FALSE]
     ELSE counting(n.handle, ef)

(***************************************************************************)
(* estimate_memory                                                         *)
(***************************************************************************)
Modes == {"ideal", "ideal_with_stores", "realistic"}

\* faulty variant of mode_ok: the mode is not checked
mode_ok_unchecked(m) == TRUE

\* line 81
mode_ok(m) == m \in Modes

\* retrieve_indexed: the set of all Indexed nodes of a tree, the ones nested
\* in the indices of another access included
RECURSIVE retrieve_indexed(_)
retrieve_indexed(e) ==
  LET sub == UNION {retrieve_indexed(e.args[i]) : i \in 1..Len(e.args)}
  IN IF e.kind = "Indexed" THEN sub \cup {e} ELSE sub

\* s.atoms(): the leaves of s; the label of an indexed array is one of them
RECURSIVE atoms(_)
atoms(e) ==
  LET sub == UNION {atoms(e.args[i]) : i \in 1..Len(e.args)}
  IN CASE e.kind \in {"Symbol", "Integer", "Dimension"} -> {e}
       [] e.kind = "Indexed" -> sub \cup {Sym(e.name)}
       [] OTHER -> sub

q_timedimension(a) == a.kind = "Dimension" /\ a.val = 1

IndexedBase(n) == Node("IndexedBase", n, 0, <<>>)

\* line 86: any(i.atoms(Indexed) for i in symbol.indices)
irregular(symbol) ==
  \E i \in 1..Len(symbol.args) : retrieve_indexed(symbol.args[i]) # {}

\* faulty variant of access: every access is keyed by its base array
access_base_only(symbol) == IndexedBase(symbol.name)

\* lines 83-89
access(symbol) == IF irregular(symbol) THEN symbol ELSE IndexedBase(symbol.name)

\* faulty variant of mem_filter: the time filter is applied in the wrong modes
mem_filter_swapped(m, s) ==
  IF m \in {"ideal", "ideal_with_stores"}
  THEN TRUE
  ELSE \E i \in atoms(s) : q_timedimension(i)

\* lines 97-100: the filter chosen by the mode
mem_filter(m, s) ==
  IF m \in {"ideal", "ideal_with_stores"}
  THEN \E i \in atoms(s) : q_timedimension(i)
  ELSE TRUE

\* faulty variant of combine: reads and writes are never merged
combine_no_union(m, rd, wr) == Cardinality(rd) + Cardinality(wr)

\* lines 105-108
combine(m, rd, wr) ==
  IF m = "ideal" THEN Cardinality(rd \cup wr)
  ELSE Cardinality(rd) + Cardinality(wr)

\* the items a for loop over handle h visits: a dict yields its keys
\* (strings), not its values
loop_items(h) ==
  IF h.kind = "dict" THEN [i \in 1..Len(h.args) |-> PyObject] ELSE h.args

\* e.rhs and e.lhs exist on an Equality only
has_sides(s) == \A i \in 1..Len(s) : is_Equality(s[i])

MemOutcome(r, rd, wr, c) == [result |-> r, reads |-> rd, writes |-> wr, computed |-> c]

\* lines 101-108, entered with the wrapped handle h
traffic(h, m) ==
  LET rloop == loop_items(h)
      wloop == loop_items(after_loop(h, 0))
  IN IF ~has_sides(rloop) \/ ~has_sides(wloop)
     THEN MemOutcome(Raised("AttributeError"), {}, {}, TRUE)
     ELSE LET reads0 == UNION {retrieve_indexed(rhs(rloop[i])) : i \in 1..Len(rloop)}
              writes0 == UNION {retrieve_indexed(lhs(wloop[i])) : i \in 1..Len(wloop)}
              rd == {access(s) : s \in {x \in reads0 : mem_filter(m, x)}}
              wr == {access(s) : s \in {x \in writes0 : mem_filter(m, x)}}
          IN MemOutcome(IntResult(combine(m, rd, wr)), rd, wr, TRUE)

estimate_memory(h, m) ==
  IF ~mode_ok(m)
  THEN MemOutcome(Raised("AssertionError"), {}, {}, FALSE)
  ELSE traffic(wrap(h), m)

(***************************************************************************)
(* The expressions, equations and handles the estimators are applied to.   *)
(***************************************************************************)
a == Sym("a")
b == Sym("b")
c == Sym("c")
i == Dimension("i", FALSE)
x == Dimension("x", FALSE)
t == Dimension("t", TRUE)
plus(p, q) == Op("Add", <<p, q>>)
times(p, q) == Op("Mul", <<p, q>>)

AB_plus_C == plus(times(a, b), c)
I_plus_1 == plus(i, Integer(1))
One_plus_Two == plus(Integer(1), Integer(2))
A_at_I_plus_1 == Indexed("A", <<I_plus_1>>)
SinA == Func("sin", <<a>>)
CosAB == Func("cos", <<times(a, b)>>)
ExpA == Func("exp", <<a>>)

u_fwd == Indexed("u", <<plus(t, Integer(1)), x>>)
u_now == Indexed("u", <<t, x>>)
u_left == Indexed("u", <<t, plus(x, Integer(-1))>>)
v_x == Indexed("v", <<x>>)
B_i == Indexed("B", <<i>>)
A_i == Indexed("A", <<i>>)
A_Bi == Indexed("A", <<B_i>>)
A_t_i == Indexed("A", <<t, i>>)
A_t_i1 == Indexed("A", <<t, I_plus_1>>)
A_t_Bi == Indexed("A", <<t, B_i>>)

\* u[t+1,x] = u[t,x] + u[t,x-1]
Stencil == Eq(u_fwd, plus(u_now, u_left))
\* the same with a read of the time-independent v[x] added
StencilV == Eq(u_fwd, Op("Add", <<u_now, u_left, v_x>>))
Gather == Eq(v_x, plus(A_Bi, A_i))
NoGather == Eq(v_x, plus(A_i, A_at_I_plus_1))
GatherT == Eq(u_fwd, plus(A_t_Bi, A_t_i))
NoGatherT == Eq(u_fwd, plus(A_t_i, A_t_i1))
ScatterT == Eq(A_t_Bi, plus(A_t_Bi, A_t_i))
Scalar == Eq(c, times(v_x, a))
Update == Eq(A_at_I_plus_1, AB_plus_C)
\* a + b = a*b + c, an equation whose lhs is itself an operation
Relation == Eq(plus(a, b), AB_plus_C)

CostOperands == {a, b, Integer(1), Integer(2)}
CostOps == {Op(k, s) : k \in {"Add", "Mul"},
                       s \in SeqUpTo(CostOperands, MaxArity) \ {<<>>}}
CostTrees == CostOperands \cup CostOps
             \cup {AB_plus_C, I_plus_1, A_at_I_plus_1, SinA, CosAB, ExpA,
                   Func("sin", <<I_plus_1>>), plus(SinA, CosAB),
                   Stencil, StencilV, Update, Scalar, Relation}
CostElems == {a, AB_plus_C, I_plus_1, One_plus_Two, SinA, ExpA, Stencil,
              Relation}
CostDicts == {PyDict(<<>>), PyDict(<<AB_plus_C>>), PyDict(<<SinA, Stencil>>),
              PyDict(<<One_plus_Two, CosAB>>)}
CostMalformed ==
  {PyObject, PyFrame, PyType, PyList(<<PyObject>>), PyList(<<PyType>>),
   PyList(<<SinA, PyType>>), PyList(<<PyDict(<<SinA>>), SinA>>),
   PyList(<<PyDict(<<SinA>>), PyType>>), PyList(<<PyFrame>>),
   PyDict(<<PyObject>>), PyIter(<<PyFrame, SinA>>), PyIter(<<PyObject>>)}
CostHandles ==
  CostTrees
  \cup {PyList(<<e>>) : e \in CostTrees}
  \cup {PyList(s) : s \in SeqUpTo(CostElems, MaxLen)}
  \cup {PyDict(s) : s \in SeqUpTo(CostElems, MaxLen)}
  \cup {PyIter(s) : s \in SeqUpTo(CostElems, MaxLen)}
  \cup {PyList(s) : s \in SeqUpTo(CostDicts, MaxLen)}
  \cup {PyIter(s) : s \in SeqUpTo(CostDicts, MaxLen)}
  \cup CostMalformed

MemEqs == {Stencil, StencilV, Gather, NoGather, GatherT, NoGatherT, ScatterT,
           Scalar}
MemMalformed == {AB_plus_C, PyObject, PyList(<<SinA>>), PyList(<<Stencil, v_x>>),
                 PyDict(<<Stencil>>), PyIter(<<u_now>>)}
MemHandles ==
  MemEqs
  \cup {PyList(s) : s \in SeqUpTo(MemEqs, MaxLen)}
  \cup {PyIter(s) : s \in SeqUpTo(MemEqs, MaxLen)}
  \cup MemMalformed
ModeArgs == Modes \cup {"bogus", "Ideal"}

(***************************************************************************)
(* The estimators as operations. A behaviour is one call: the caller's     *)
(* arguments are chosen initially (pc = "call"), and the call runs to its  *)
(* outcome in one step (pc = "return").                                    *)
(***************************************************************************)
InitEst ==
  /\ pc = "call"
  /\ \/ /\ call = "estimate_cost"
        /\ handle \in CostHandles
        /\ estimate_functions \in BOOLEAN
        /\ mode = "realistic"
     \/ /\ call = "estimate_memory"
        /\ handle \in MemHandles
        /\ mode \in ModeArgs
        /\ estimate_functions = FALSE
  /\ result = NoneResult
  /\ warned = FALSE
  /\ reads = {}
  /\ writes = {}
  /\ computed = FALSE

EstimateCost ==
  /\ pc = "call"
  /\ call = "estimate_cost"
  /\ LET out == estimate_cost(handle, estimate_functions)
     IN /\ result' = out.result
        /\ warned' = out.warned
  /\ pc' = "return"
  /\ UNCHANGED <<call, handle, estimate_functions, mode, reads, writes, computed>>
  /\ UNCHANGED cgvars

EstimateMemory ==
  /\ pc = "call"
  /\ call = "estimate_memory"
  /\ LET out == estimate_memory(handle, mode)
     IN /\ result' = out.result
        /\ reads' = out.reads
        /\ writes' = out.writes
        /\ computed' = out.computed
  /\ pc' = "return"
  /\ UNCHANGED <<call, handle, estimate_functions, mode, warned>>
  /\ UNCHANGED cgvars

(***************************************************************************)
(* Acoustic_cg: one instance, its operator accessors and its four methods. *)
(***************************************************************************)
Accessors == {"op_fwd", "op_fwd_save", "op_adj", "op_grad", "op_born"}

\* the decorator of each accessor
decorator ==
  [p \in Accessors |->
     IF p \in {"op_fwd", "op_fwd_save"} THEN "cached_property" ELSE "property"]

\* the operator class each accessor constructs, and its save argument
constructs ==
  [p \in Accessors |->
     CASE p \in {"op_fwd", "op_fwd_save"} -> "ForwardOperator"
       [] p = "op_adj" -> "AdjointOperator"
       [] p = "op_grad" -> "GradientOperator"
       [] p = "op_born" -> "BornOperator"]
save_arg == [p \in Accessors |-> p = "op_fwd_save"]

NoOperator == [id |-> 0, cls |-> "None", save |-> FALSE]
NewOperator(p, n) == [id |-> n, cls |-> constructs[p], save |-> save_arg[p]]

\* a cached_property runs its function on the first access only and keeps
\* the value in the instance; a property runs it on every access
cache_hit(p) == decorator[p] = "cached_property" /\ cache[p] # NoOperator

\* self.<p>: the operator the access returns, built now unless cached
Get(p) ==
  LET op == IF cache_hit(p) THEN cache[p] ELSE NewOperator(p, nextid)
  IN /\ nbuilt' = IF cache_hit(p) THEN nbuilt ELSE [nbuilt EXCEPT ![p] = @ + 1]
     /\ nextid' = IF cache_hit(p) THEN nextid ELSE nextid + 1
     /\ cache' = IF decorator[p] = "cached_property"
                 THEN [cache EXCEPT ![p] = op] ELSE cache
     /\ firstop' = IF firstop[p] = NoOperator
                   THEN [firstop EXCEPT ![p] = op] ELSE firstop
     /\ lastop' = [lastop EXCEPT ![p] = op]

InitCg ==
  /\ cache = [p \in Accessors |-> NoOperator]
  /\ nbuilt = [p \in Accessors |-> 0]
  /\ firstop = [p \in Accessors |-> NoOperator]
  /\ lastop = [p \in Accessors |-> NoOperator]
  /\ nextid = 1
  /\ lastcall = [method |-> "none", save |-> FALSE, accessor |-> "none"]
  /\ ncalls = 0

\* summary = self.<p>.apply(...): the method's one use of an accessor
Apply(m, s, p) ==
  /\ Get(p)
  /\ lastcall' = [method |-> m, save |-> s, accessor |-> p]
  /\ ncalls' = ncalls + 1

Forward ==
  /\ ncalls < MaxCalls
  /\ \E save \in BOOLEAN :
       IF save THEN Apply("Forward", save, "op_fwd_save")
       ELSE Apply("Forward", save, "op_fwd")
  /\ UNCHANGED estvars

Adjoint ==
  /\ ncalls < MaxCalls
  /\ Apply("Adjoint", FALSE, "op_adj")
  /\ UNCHANGED estvars

Gradient ==
  /\ ncalls < MaxCalls
  /\ Apply("Gradient", FALSE, "op_grad")
  /\ UNCHANGED estvars

Born ==
  /\ ncalls < MaxCalls
  /\ Apply("Born", FALSE, "op_born")
  /\ UNCHANGED estvars

Init == InitEst /\ InitCg
Next == EstimateCost \/ EstimateMemory
Spec == Init /\ [][Next]_vars

\* the instance alone: no estimator call is pending
NoCall ==
  /\ pc = "idle"
  /\ call = "none"
  /\ handle = PyList(<<>>)
  /\ estimate_functions = FALSE
  /\ mode = "realistic"
  /\ result = NoneResult
  /\ warned = FALSE
  /\ reads = {}
  /\ writes = {}
  /\ computed = FALSE

InitAcoustic == NoCall /\ InitCg
NextAcoustic == Forward \/ Adjoint \/ Gradient \/ Born
SpecAcoustic == InitAcoustic /\ [][NextAcoustic]_vars

(***************************************************************************)
(* Properties of estimate_cost.                                            *)
(***************************************************************************)
Returned(f) == pc = "return" /\ call = f

RECURSIVE ClaimSum(_)
ClaimSum(ns) == IF ns = <<>> THEN 0 ELSE Head(ns) + ClaimSum(Tail(ns))

\* the contribution the specification gives one node
ClaimNodeCost(e, ef) ==
  CASE e.kind = "Function" ->
         IF ef /\ e.name \in {"sin", "cos"} THEN 50 ELSE 1
    [] e.kind = "Op" ->
         (Len(e.args) - 1) - Cardinality({k \in 1..Len(e.args) : e.args[k].kind = "Integer"})
    [] OTHER -> 0

\* summed over every node of a tree
RECURSIVE ClaimTreeCost(_, _)
ClaimTreeCost(e, ef) ==
  ClaimNodeCost(e, ef)
  + ClaimSum([k \in 1..Len(e.args) |-> ClaimTreeCost(e.args[k], ef)])

\* an equation contributes its rhs only
ClaimCost(e, ef) ==
  IF e.kind = "Equality" THEN ClaimTreeCost(e.args[2], ef) ELSE ClaimTreeCost(e, ef)

AllTrees(s) == \A k \in 1..Len(s) : s[k].kind \in TreeKinds
FlatSequence(h) == h.kind = "list" /\ AllTrees(h.args)
Terminal(e) == e.kind \in {"Symbol", "Integer", "Dimension"}

\* C1: for a flat sequence of expression trees and equations, estimate_cost
\* returns the sum over every Operation and Function node of each tree (of
\* the rhs only for an equation) of (k - 1) - m for an Operation with k
\* operands, m of them integer literals, and of 50 (sin, cos, when
\* estimate_functions) or 1 for a Function; an Operation over two
\* non-integer operands costs 1, i + 1 costs 0, a*b + c costs 2.
C1_CostIsSumOfNodeCosts ==
  (Returned("estimate_cost") /\ FlatSequence(handle)) =>
    /\ result = IntResult(ClaimSum([k \in 1..Len(handle.args) |->
                            ClaimCost(handle.args[k], estimate_functions)]))
    /\ (handle = PyList(<<AB_plus_C>>) => result.val = 2)
    /\ (handle = PyList(<<I_plus_1>>) => result.val = 0)
    /\ \A e \in CostOps :
         (/\ handle = PyList(<<e>>)
          /\ Len(e.args) = 2
          /\ \A k \in 1..2 : Terminal(e.args[k]) /\ e.args[k].kind # "Integer")
         => result.val = 1

\* two trees, one an equation whose lhs holds an operation: 2 + 2
C1_Witness ==
  /\ Returned("estimate_cost")
  /\ handle = PyList(<<AB_plus_C, Relation>>)
  /\ result = IntResult(4)

\* C2: whenever estimate_cost returns a number, the number is >= 0.
C2_CostNonNegative ==
  (Returned("estimate_cost") /\ result.kind = "int") => result.val >= 0

\* C3: estimate_cost never raises; a failure, wherever it occurs, gives a
\* warning and the unavailable result, which is not the integer 0.
C3_CostNeverRaises ==
  Returned("estimate_cost") =>
    /\ result.kind \in {"int", "None"}
    /\ (result.kind = "None" <=> warned)
    /\ NoneResult # IntResult(0)

\* the trees a handle of one of the four documented shapes carries
IsMapping(h) == h.kind = "dict" /\ AllTrees(h.args)
FourShapes(h) ==
  \/ h.kind \in TreeKinds
  \/ FlatSequence(h)
  \/ IsMapping(h)
  \/ h.kind = "list" /\ \A k \in 1..Len(h.args) : IsMapping(h.args[k])
Carried(h) ==
  CASE h.kind \in TreeKinds -> <<h>>
    [] FlatSequence(h) -> h.args
    [] IsMapping(h) -> h.args
    [] OTHER -> flatten([k \in 1..Len(h.args) |-> h.args[k].args])

\* C7: a single expression, a list, a mapping and a list of mappings that
\* carry the same trees cost the same, and the cost is the sum of the costs
\* of the trees taken one at a time.
C7_CostSameForEveryShape ==
  (Returned("estimate_cost") /\ FourShapes(handle)) =>
    LET trees == Carried(handle)
    IN /\ result = estimate_cost(PyList(trees), estimate_functions).result
       /\ result = IntResult(ClaimSum([k \in 1..Len(trees) |->
                     estimate_cost(trees[k], estimate_functions).result.val]))

\* a list of two mappings: sin (50) + the stencil's rhs (1) + a*b + c (2)
C7_Witness ==
  /\ Returned("estimate_cost")
  /\ handle = PyList(<<PyDict(<<SinA, Stencil>>), PyDict(<<AB_plus_C>>)>>)
  /\ estimate_functions
  /\ result = IntResult(53)

IteratorOfEquations(h) ==
  h.kind = "iterator" /\ \A k \in 1..Len(h.args) : h.args[k].kind = "Equality"

\* C8: both estimators treat a one-shot iterator over equations like the
\* list of the equations it yields: estimate_cost counts every one of them,
\* the first included, and estimate_memory counts the reads of every rhs
\* and the writes of every lhs.
C8_IteratorLikeList ==
  (pc = "return" /\ IteratorOfEquations(handle)) =>
    /\ call = "estimate_cost" =>
         result = estimate_cost(PyList(handle.args), estimate_functions).result
    /\ call = "estimate_memory" =>
         result = estimate_memory(PyList(handle.args), mode).result

(***************************************************************************)
(* Properties of estimate_memory.                                          *)
(***************************************************************************)
EquationList(h) ==
  h.kind = "list" /\ \A k \in 1..Len(h.args) : h.args[k].kind = "Equality"

\* C4: with a mode other than the three known ones estimate_memory fails on
\* its first step, whatever the handle: nothing is computed on the
\* equations, no read or write set is built, no number is returned.
C4_UnknownModeFailsFirst ==
  (Returned("estimate_memory")
   /\ mode \notin {"ideal", "ideal_with_stores", "realistic"}) =>
    /\ result = Raised("AssertionError")
    /\ ~computed
    /\ reads = {}
    /\ writes = {}

C4_Witness ==
  /\ Returned("estimate_memory")
  /\ handle = PyList(<<Stencil, Gather>>)
  /\ mode = "bogus"
  /\ result = Raised("AssertionError")

\* the indexed accesses of the rhs sides and of the lhs sides
ClaimReadAccesses(h) ==
  UNION {retrieve_indexed(h.args[k].args[2]) : k \in 1..Len(h.args)}
ClaimWriteAccesses(h) ==
  UNION {retrieve_indexed(h.args[k].args[1]) : k \in 1..Len(h.args)}

\* the distinctness key: the access itself when another access is nested in
\* it, its base array otherwise
ClaimKey(s) == IF retrieve_indexed(s) # {s} THEN s ELSE IndexedBase(s.name)
ClaimKeys(accs) == {ClaimKey(s) : s \in accs}

HasTime(s) == \E n \in atoms(s) : n.kind = "Dimension" /\ n.val = 1

\* a key is time-dependent when an access it stands for is indexed, at any
\* depth, by the time dimension
ClaimTimeKeys(accs) ==
  {k \in ClaimKeys(accs) : \E s \in accs : ClaimKey(s) = k /\ HasTime(s)}

ClaimMemory(h, m) ==
  LET R == ClaimReadAccesses(h)
      W == ClaimWriteAccesses(h)
  IN CASE m = "ideal" -> Cardinality(ClaimTimeKeys(R) \cup ClaimTimeKeys(W))
       [] m = "ideal_with_stores" ->
            Cardinality(ClaimTimeKeys(R)) + Cardinality(ClaimTimeKeys(W))
       [] m = "realistic" -> Cardinality(ClaimKeys(R)) + Cardinality(ClaimKeys(W))

Mentions(h, n) ==
  \E s \in ClaimReadAccesses(h) \cup ClaimWriteAccesses(h) : s.name = n

\* C5: for a sequence of equations estimate_memory returns |reads \cup
\* writes| (ideal) or |reads| + |writes| (ideal_with_stores) over the
\* time-dependent keys, and |reads| + |writes| over all keys (realistic);
\* the stencil u[t+1,x] = u[t,x] + u[t,x-1] gives 1, 2 and 2, and a read of
\* a new time-independent v[x] changes only the realistic result, by 1.
C5_MemoryByMode ==
  (Returned("estimate_memory") /\ mode \in Modes /\ EquationList(handle)) =>
    /\ result = IntResult(ClaimMemory(handle, mode))
    /\ handle = PyList(<<Stencil>>) =>
         result.val = (IF mode = "ideal" THEN 1 ELSE 2)
    /\ handle = PyList(<<StencilV>>) =>
         result.val = (CASE mode = "ideal" -> 1
                         [] mode = "ideal_with_stores" -> 2
                         [] mode = "realistic" -> 3)
    /\ ~Mentions(handle, "v") =>
         estimate_memory(PyList(Append(handle.args, Scalar)), mode).result
           = IntResult(result.val + (IF mode = "realistic" THEN 1 ELSE 0))

C5_Witness ==
  /\ Returned("estimate_memory")
  /\ handle = PyList(<<StencilV>>)
  /\ mode = "realistic"
  /\ result = IntResult(3)
  /\ estimate_memory(PyList(<<Stencil>>), "realistic").result = IntResult(2)

\* the irregular accesses read by the equations of h
IrregularReads(h) == {s \in ClaimReadAccesses(h) : retrieve_indexed(s) # {s}}
\* the regular accesses to the array of s that the equations of h also read
RegularReadsOf(h, s) ==
  {r \in ClaimReadAccesses(h) : r.name = s.name /\ retrieve_indexed(r) = {r}}

RECURSIVE Subst(_, _, _)
Subst(e, s, r) ==
  IF e = s THEN r
  ELSE [e EXCEPT !.args = [k \in 1..Len(e.args) |-> Subst(e.args[k], s, r)]]

\* the equations of h with the read s replaced by r
ReplaceRead(h, s, r) ==
  PyList([k \in 1..Len(h.args) |->
            Eq(h.args[k].args[1], Subst(h.args[k].args[2], s, r))])

Orderings(n) ==
  {p \in [1..n -> 1..n] : \A j, k \in 1..n : p[j] = p[k] => j = k}

\* C10: for a sequence of equations ideal <= ideal_with_stores <= realistic,
\* every result is an integer >= 0, and a result does not change when the
\* equations are reordered or one of them is repeated.
C10_ModesOrderedAndStable ==
  (Returned("estimate_memory") /\ mode \in Modes /\ EquationList(handle)) =>
    LET eqs == handle.args
        est(m) == estimate_memory(handle, m).result
    IN /\ result.kind = "int" /\ result.val >= 0
       /\ est("ideal").val <= est("ideal_with_stores").val
       /\ est("ideal_with_stores").val <= est("realistic").val
       /\ \A p \in Orderings(Len(eqs)) :
            estimate_memory(PyList([k \in 1..Len(eqs) |-> eqs[p[k]]]), mode).result
              = result
       /\ \A k \in 1..Len(eqs) :
            estimate_memory(PyList(Append(eqs, eqs[k])), mode).result = result

C10_Witness ==
  /\ Returned("estimate_memory")
  /\ handle = PyList(<<Gather, Stencil>>)
  /\ mode = "ideal_with_stores"
  /\ result = IntResult(2)
  /\ estimate_memory(handle, "ideal").result = IntResult(1)
  /\ estimate_memory(handle, "realistic").result = IntResult(6)
  /\ estimate_memory(PyList(<<Stencil, Gather, Gather>>), mode).result = result

(***************************************************************************)
(* Properties of Acoustic_cg.                                              *)
(***************************************************************************)
\* C9: each of the five accessors builds its operator at most once per
\* instance and returns that same operator on every later access, and
\* Forward uses op_fwd_save exactly when save is true.
C9_OperatorsBuiltOnce ==
  /\ \A p \in Accessors : nbuilt[p] <= 1 /\ lastop[p] = firstop[p]
  /\ lastcall.method = "Forward" =>
       lastcall.accessor = (IF lastcall.save THEN "op_fwd_save" ELSE "op_fwd")

====
